---------------------------- MODULE Spec2Model ----------------------------
(***************************************************************************)
(* Conspiracy Board Agent: the round-based orchestration loop (agent.py),  *)
(* the Neo4j-backed graph store (graph.py) and the web transport           *)
(* (server.py) that runs the loop in a thread and streams its events to    *)
(* websocket observers.                                                    *)
(*                                                                         *)
(* Optional values (a Cypher property that may be null, a JSON key that    *)
(* may be missing) are sequences of length 0 or 1: <<>> is null/missing,   *)
(* <<v>> is the value v.  Text is a sequence of one-character strings.     *)
(***************************************************************************)
EXTENDS Integers, Sequences, FiniteSets, TLC

\* ------------------------------------------------------------------ bounds
\* Largest `rounds` argument a run is started with.
MaxRounds == 2
\* Number of graph-store calls the direct client of ConspiracyGraph makes.
MaxOps == 4
\* Longest list of search results handed to the extractor directly.
MaxResults == 7
\* Largest `rounds` argument of the run whose narrations are followed.
MaxNarratedRounds == 4

\* ------------------------------------------------------- program constants
DefaultSuspicion == 5
TopN == 5
RelationshipDisplayLen == 80
MaxVisionImages == 2
ImagesPerSearch == 3
RawTextCap == 3000

\* ------------------------------------------------------------ value spaces
Runs == {"r1", "r2"}
HarnessGraph == "h"
Graphs == Runs \cup {HarnessGraph}
Sockets == {"w1", "w2"}
Names == {"e1", "e2", "e3"}
TopicA == "A"
TopicB == "B"

None == <<>>
Some(v) == <<v>>
IsSome(o) == Len(o) = 1
Get(o) == o[1]

\* ------------------------------------------------------------------- state
VARIABLES
  db,               \* the Neo4j database: [nodes, rels]
  available,        \* ConspiracyGraph.available, per graph object
  driver,           \* ConspiracyGraph._driver is not None, per graph object
  ret,              \* direct client: the last call and what it returned
  nops,             \* direct client: calls made so far
  lastEntity,       \* direct client: arguments of the latest add_entity per name
  lastConn,         \* direct client: arguments of the latest add_connection per pair
  pc,               \* run thread: position in run_in_thread / run_agent
  local,            \* run thread: the local variables of run_agent
  own,              \* per run: the database this run's calls alone would produce
  runs,             \* server._runs: run id -> event buffer (None: no such key)
  run_complete,     \* server._run_complete
  ev,               \* on_event: the event being handled, per run thread
  oe,               \* on_event: position, per run thread
  websockets,       \* server._websockets: run id -> registered sockets
  wpc,              \* websocket_endpoint: position, per socket
  wrun,             \* websocket_endpoint: run_id path parameter
  snapshot,         \* websocket_endpoint: list(_runs[run_id]) still to replay
  regAt,            \* per socket: length of the run's buffer when it was registered
  delivered,        \* what the client of each socket has received
  loopq             \* coroutines scheduled on _loop by run_coroutine_threadsafe

graphVars == <<available, driver>>
harnessVars == <<ret, nops, lastEntity, lastConn>>
threadVars == <<pc, local, own>>
bufferVars == <<runs, run_complete>>
emitVars == <<ev, oe>>
socketVars == <<websockets, wpc, wrun, snapshot, regAt, delivered, loopq>>
vars == <<db, graphVars, harnessVars, threadVars, bufferVars, emitVars, socketVars>>

\* ------------------------------------------------------- sequence helpers
RECURSIVE SeqSum(_)
SeqSum(s) == IF s = <<>> THEN 0 ELSE Head(s) + SeqSum(Tail(s))

Take(s, n) == IF Len(s) > n THEN SubSeq(s, 1, n) ELSE s

Reverse(s) == [i \in 1..Len(s) |-> s[Len(s) + 1 - i]]

RECURSIVE Filter(_, _)
Filter(s, keep) ==
  IF s = <<>> THEN <<>>
  ELSE IF keep[1] THEN <<Head(s)>> \o Filter(Tail(s), Tail(keep))
  ELSE Filter(Tail(s), Tail(keep))

IsPrefix(s, t) == Len(s) <= Len(t) /\ s = SubSeq(t, 1, Len(s))

Last(s) == s[Len(s)]

\* ------------------------------------------------ graph.py: the database
EmptyDB == [nodes |-> <<>>, rels |-> <<>>]

HasNode(nodes, name) == \E i \in DOMAIN nodes : nodes[i].name = name

\* A merge that also removes the other properties of the node it matched.
MergeNodeReset(nodes, name) ==
  IF HasNode(nodes, name)
  THEN [i \in DOMAIN nodes |->
          IF nodes[i].name = name THEN [name |-> name, topic |-> None, round |-> None]
          ELSE nodes[i]]
  ELSE Append(nodes, [name |-> name, topic |-> None, round |-> None])

\* MERGE (e:Entity {name: $name}): match the nodes of that name, or create one
\* with no other property.
MergeNode(nodes, name) ==
  IF HasNode(nodes, name) THEN nodes
  ELSE Append(nodes, [name |-> name, topic |-> None, round |-> None])

HasRel(rels, f, t) == \E i \in DOMAIN rels : rels[i].from = f /\ rels[i].to = t

\* MERGE (a)-[r:CONNECTED_TO]->(b)
MergeRel(rels, f, t) ==
  IF HasRel(rels, f, t) THEN rels
  ELSE Append(rels, [from |-> f, to |-> t, relationship |-> None, suspicion |-> None])

\* A delete of the relationships alone: MATCH ()-[r]->() DELETE r
ClearKeepsNodes(d) == [d EXCEPT !.rels = <<>>]

\* MATCH (n) DETACH DELETE n
ClearDB(d) == EmptyDB

\* MERGE (e:Entity {name}) SET e.topic, e.round
AddEntityCreate(d, name, topic, rnd) ==
  [d EXCEPT !.nodes = Append(@, [name |-> name, topic |-> Some(topic), round |-> Some(rnd)])]

AddEntityDB(d, name, topic, rnd) ==
  [d EXCEPT !.nodes =
     [i \in DOMAIN MergeNode(@, name) |->
        IF MergeNode(@, name)[i].name = name
        THEN [MergeNode(@, name)[i] EXCEPT !.topic = Some(topic), !.round = Some(rnd)]
        ELSE MergeNode(@, name)[i]]]

\* MERGE (a) MERGE (b) MERGE (a)-[r]->(b) SET r.relationship, r.suspicion
AddConnectionCreate(d, f, t, rel, susp) ==
  [nodes |-> MergeNode(MergeNode(d.nodes, f), t),
   rels |-> Append(d.rels, [from |-> f, to |-> t, relationship |-> Some(rel),
                            suspicion |-> Some(susp)])]

\* The relationship alone, its endpoints not merged as nodes.
AddConnectionNoEndpoints(d, f, t, rel, susp) ==
  [d EXCEPT !.rels = Append(SelectSeq(@, LAMBDA x : ~(x.from = f /\ x.to = t)),
                            [from |-> f, to |-> t, relationship |-> Some(rel),
                             suspicion |-> Some(susp)])]

AddConnectionDB(d, f, t, rel, susp) ==
  [nodes |-> MergeNode(MergeNode(d.nodes, f), t),
   rels |-> [i \in DOMAIN MergeRel(d.rels, f, t) |->
               IF MergeRel(d.rels, f, t)[i].from = f /\ MergeRel(d.rels, f, t)[i].to = t
               THEN [MergeRel(d.rels, f, t)[i] EXCEPT !.relationship = Some(rel),
                                                     !.suspicion = Some(susp)]
               ELSE MergeRel(d.rels, f, t)[i]]]

\* A count of the entities of the first topic only.
CountTopicA(d) == Len(SelectSeq(d.nodes, LAMBDA n : n.topic = Some("A")))

\* MATCH (e:Entity) RETURN count(e)
CountDB(d) == Len(d.nodes)

\* MATCH (e:Entity) RETURN properties(e)
EntitiesDB(d) == d.nodes

\* MATCH (a:Entity)-[r:CONNECTED_TO]->(b:Entity) RETURN ...: one row per
\* relationship, as the dict get_connections builds from it.
ConnectionsDB(d) ==
  [i \in DOMAIN d.rels |->
     [from |-> d.rels[i].from, to |-> d.rels[i].to,
      relationship |-> d.rels[i].relationship, suspicion |-> d.rels[i].suspicion]]

\* Cypher fixes no row order without ORDER BY: the rows come back in creation
\* order or in the reverse of it.
ReturnOrders(rows) == {rows, Reverse(rows)}

\* ------------------------------------------- graph.py: ConspiracyGraph
\* The guard every method starts with: `not self.available or self._driver is None`
\* returns the default.
UsableIgnoringFlag(g) == TRUE

Usable(g) == available[g] /\ driver[g]

clear(g, d) == IF Usable(g) THEN ClearDB(d) ELSE d

add_entity(g, d, name, topic, rnd) ==
  IF Usable(g) THEN AddEntityDB(d, name, topic, rnd) ELSE d

add_connection(g, d, f, t, rel, susp) ==
  IF Usable(g) THEN AddConnectionDB(d, f, t, rel, susp) ELSE d

get_all_entities(g, d) == IF Usable(g) THEN {EntitiesDB(d)} ELSE {<<>>}

get_connections(g, d) == IF Usable(g) THEN ReturnOrders(ConnectionsDB(d)) ELSE {<<>>}

get_entity_count(g, d) == IF Usable(g) THEN CountDB(d) ELSE 0

\* close(): the driver is closed and dropped if there is one.
close(g) == [driver EXCEPT ![g] = FALSE]


\* ------------------------------------------------- state before any request
NoEvent == [type |-> "none"]
NoExtraction == [entities_a |-> <<>>, entities_b |-> <<>>, connections |-> <<>>,
                 insight |-> None]

InitGraphs ==
  /\ ret = [op |-> "none", val |-> None]
  /\ nops = 0
  /\ lastEntity = [n \in Names |-> None]
  /\ lastConn = [p \in Names \X Names |-> None]

\* run_agent's local variables; a variable holds <<>> or 0 while it is unassigned
\* or no longer read. calls is the list of the requests that step 2 of the
\* current round made to the extractor and to the search client, in order;
\* analyzed is the list of the calls of analyze_image of the current round, each
\* with the clue it returned; invoked counts, for the round it names, the calls of
\* query_findings, extract_entities_and_connections, store_finding and
\* generate_narration made so far; narration_error tells whether the call of
\* generate_narration of the round went through its except branch, and
\* connection_count is the argument of that name it was called with.
NoCalls == [round |-> 0, query |-> 0, extract |-> 0, store |-> 0, narrate |-> 0]

NoLocals ==
  [rounds |-> 0, round_num |-> 0, previous_context |-> <<>>, all_results |-> <<>>,
   round_images |-> <<>>, extracted |-> NoExtraction, idx |-> 0, entity_count |-> 0,
   last_insight |-> <<>>, total |-> 0, conns |-> <<>>, exc |-> None, calls |-> <<>>,
   analyzed |-> <<>>, invoked |-> NoCalls, narration_error |-> FALSE,
   connection_count |-> 0]

InitThreads ==
  /\ pc = [r \in Runs |-> "idle"]
  /\ local = [r \in Runs |-> NoLocals]
  /\ own = [r \in Runs |-> EmptyDB]
  /\ ev = [r \in Runs |-> NoEvent]
  /\ oe = [r \in Runs |-> "none"]

InitServer ==
  /\ runs = [r \in Runs |-> None]
  /\ run_complete = [r \in Runs |-> FALSE]
  /\ websockets = [r \in Runs |-> <<>>]
  /\ wpc = [w \in Sockets |-> "closed"]
  /\ wrun = [w \in Sockets |-> "r1"]
  /\ snapshot = [w \in Sockets |-> <<>>]
  /\ regAt = [w \in Sockets |-> 0]
  /\ delivered = [w \in Sockets |-> <<>>]
  /\ loopq = <<>>

\* ------------------------------------- a direct client of ConspiracyGraph
\* The calls a test or a script makes on one graph object, in any order.
HarnessNames == {"e1", "e2"}
HarnessEntityArgs == {[topic |-> TopicA, round |-> 1], [topic |-> TopicB, round |-> 2]}
HarnessConnectionArgs == {[relationship |-> <<"r", "1">>, suspicion |-> 9],
                          [relationship |-> <<"r", "2">>, suspicion |-> 3]}

H_clear ==
  /\ nops < MaxOps
  /\ db' = clear(HarnessGraph, db)
  /\ ret' = [op |-> "clear", val |-> None]
  /\ lastEntity' = [n \in Names |-> None]
  /\ lastConn' = [p \in Names \X Names |-> None]
  /\ nops' = nops + 1
  /\ UNCHANGED <<graphVars, threadVars, bufferVars, emitVars, socketVars>>

H_add_entity ==
  /\ nops < MaxOps
  /\ \E name \in HarnessNames, a \in HarnessEntityArgs :
       /\ db' = add_entity(HarnessGraph, db, name, a.topic, a.round)
       /\ lastEntity' = [lastEntity EXCEPT ![name] = Some([args |-> a, before |-> IF IsSome(@) THEN Some(Get(@).args) ELSE None])]
  /\ ret' = [op |-> "add_entity", val |-> None]
  /\ nops' = nops + 1
  /\ UNCHANGED <<graphVars, lastConn, threadVars, bufferVars, emitVars, socketVars>>

H_add_connection ==
  /\ nops < MaxOps
  /\ \E f \in HarnessNames, t \in HarnessNames, a \in HarnessConnectionArgs :
       /\ db' = add_connection(HarnessGraph, db, f, t, a.relationship, a.suspicion)
       /\ lastConn' = [lastConn EXCEPT ![<<f, t>>] = Some([args |-> a, before |-> IF IsSome(@) THEN Some(Get(@).args) ELSE None])]
  /\ ret' = [op |-> "add_connection", val |-> None]
  /\ nops' = nops + 1
  /\ UNCHANGED <<graphVars, lastEntity, threadVars, bufferVars, emitVars, socketVars>>

H_get_all_entities ==
  /\ nops < MaxOps
  /\ \E rows \in get_all_entities(HarnessGraph, db) :
       ret' = [op |-> "get_all_entities", val |-> rows]
  /\ nops' = nops + 1
  /\ UNCHANGED <<db, graphVars, lastEntity, lastConn, threadVars, bufferVars,
                 emitVars, socketVars>>

H_get_connections ==
  /\ nops < MaxOps
  /\ \E rows \in get_connections(HarnessGraph, db) :
       ret' = [op |-> "get_connections", val |-> rows]
  /\ nops' = nops + 1
  /\ UNCHANGED <<db, graphVars, lastEntity, lastConn, threadVars, bufferVars,
                 emitVars, socketVars>>

H_get_entity_count ==
  /\ nops < MaxOps
  /\ ret' = [op |-> "get_entity_count", val |-> Some(get_entity_count(HarnessGraph, db))]
  /\ nops' = nops + 1
  /\ UNCHANGED <<db, graphVars, lastEntity, lastConn, threadVars, bufferVars,
                 emitVars, socketVars>>

H_close ==
  /\ nops < MaxOps
  /\ driver' = close(HarnessGraph)
  /\ ret' = [op |-> "close", val |-> None]
  /\ nops' = nops + 1
  /\ UNCHANGED <<db, available, lastEntity, lastConn, threadVars, bufferVars,
                 emitVars, socketVars>>

\* ConspiracyGraph(): the driver is kept only when the connection was verified.
GraphInit ==
  /\ db = EmptyDB
  /\ \E up \in BOOLEAN :
       /\ available = [g \in Graphs |-> g = HarnessGraph /\ up]
       /\ driver = [g \in Graphs |-> g = HarnessGraph /\ up]
  /\ InitGraphs /\ InitThreads /\ InitServer

GraphNext ==
  \/ H_clear
  \/ H_add_entity
  \/ H_add_connection
  \/ H_get_all_entities
  \/ H_get_connections
  \/ H_get_entity_count
  \/ H_close

GraphSpec == GraphInit /\ [][GraphNext]_vars


\* ------------------------------------------------------------ text helpers
RECURSIVE JoinLines(_)
\* "\n".join(...)
JoinLines(texts) ==
  IF texts = <<>> THEN <<>>
  ELSE IF Len(texts) = 1 THEN texts[1]
  ELSE texts[1] \o <<"\n">> \o JoinLines(Tail(texts))

Whitespace == {" ", "\n", "\t"}

\* not text.strip()
IsBlank(text) == \A i \in DOMAIN text : text[i] \in Whitespace

\* list(dict.fromkeys(s)): the first occurrence of each element, in order
RECURSIVE Dedupe(_)
Dedupe(s) ==
  IF s = <<>> THEN <<>>
  ELSE LET front == Dedupe(SubSeq(s, 1, Len(s) - 1))
       IN IF \E i \in DOMAIN front : front[i] = Last(s) THEN front
          ELSE Append(front, Last(s))

\* ---------------------------------------------------------------- search.py
TruncateLen == 500

\* _truncate
Truncate(text) == IF Len(text) > TruncateLen THEN SubSeq(text, 1, TruncateLen) ELSE text

\* What the search provider answers for each kind of query.
SearchResponse(kind) ==
  CASE kind = "connection" ->
         [results |-> <<[title |-> "C", url |-> "uc", content |-> <<"c">>]>>,
          images |-> <<"img1">>]
    [] kind = "topic_a" ->
         [results |-> <<[title |-> "A", url |-> "ua", content |-> <<"a">>]>>,
          images |-> <<"img1", "img1", "img1", "img2">>]
    [] kind = "topic_b" ->
         [results |-> <<[title |-> "B", url |-> "ub", content |-> <<" ">>]>>,
          images |-> <<>>]
    [] OTHER ->
         [results |-> <<[title |-> "D", url |-> "ud", content |-> <<"d">>]>>,
          images |-> <<>>]

\* The image URLs of a response: those of SearchResponse, or, when the provider
\* answers "gallery", four URLs of which the third repeats the first.
ResponseImages(kind, outcome) ==
  IF outcome = "gallery" THEN <<"img2", "img3", "img2", "img4">>
  ELSE SearchResponse(kind).images

\* search_topic: ([], []) when the client is missing or the call raises, else the
\* results with truncated content and the first 3 image URLs.
search_topic(kind, outcome) ==
  IF outcome = "fail" THEN [results |-> <<>>, images |-> <<>>]
  ELSE [results |-> [i \in DOMAIN SearchResponse(kind).results |->
                       [SearchResponse(kind).results[i] EXCEPT !.content = Truncate(@)]],
        images |-> Take(ResponseImages(kind, outcome), ImagesPerSearch)]

\* ------------------------------------------------------------- extractor.py
FallbackInsight == <<"N", "o">>

ExtractionFallback ==
  [entities_a |-> <<>>, entities_b |-> <<>>, connections |-> <<>>,
   insight |-> FallbackInsight]

Conn(f, t, rel, susp) ==
  [from |-> f, to |-> t, relationship |-> rel, suspicion_level |-> susp]

\* Parsed model answers (json.loads of the reply): a key that is absent is None.
ModelAnswer(id) ==
  CASE id = "first" ->
         [entities_a |-> Some(<<"e1">>), entities_b |-> Some(<<"e2">>),
          connections |-> Some(<<Conn(Some("e1"), Some("e2"), Some(<<"x">>), Some(3)),
                                  Conn(Some("e2"), Some("e1"), Some(<<"y">>), Some(9)),
                                  Conn(Some("e1"), Some("e3"), Some(<<"z">>), Some(3))>>),
          insight |-> Some(<<"i", "1">>)]
    [] id = "second" ->
         [entities_a |-> Some(<<"e2", "e1">>), entities_b |-> Some(<<"e3">>),
          connections |-> Some(<<Conn(Some("e3"), Some("e1"), Some(<<"u">>), Some(9)),
                                  Conn(Some("e2"), Some("e3"), Some(<<"v">>), None),
                                  Conn(Some("e3"), Some("e2"), Some(<<"w">>), Some(3)),
                                  Conn(Some("e1"), Some("e2"), Some(<<"x", "x">>), Some(9))>>),
          insight |-> Some(<<"i", "2">>)]
    [] id = "no_from" ->
         [entities_a |-> Some(<<"e1">>), entities_b |-> Some(<<>>),
          connections |-> Some(<<Conn(None, Some("e2"), Some(<<"x">>), Some(3))>>),
          insight |-> Some(<<"i", "3">>)]
    [] OTHER ->
         [entities_a |-> None, entities_b |-> None, connections |-> None,
          insight |-> None]

\* parsed.get(key, default)
GetOr(o, default) == IF IsSome(o) THEN Get(o) ELSE default

\* The reply of the model to the extraction prompt, as a sequence of tokens: a
\* code fence (three backquotes, written ~~~ here), white space, prose, or a whole
\* JSON value (an object named as in
\* ModelAnswer, or the array "[1]"). None: the call raises.
JSONObjects == {"first", "second", "no_from", "empty_object"}

JSONValues == JSONObjects \cup {"[1]"}

ModelReply(outcome) ==
  CASE outcome = "error" -> None
    [] outcome \in JSONValues -> Some(<<outcome>>)
    [] outcome = "padded_first" -> Some(<<" ", "first", "\n">>)
    [] outcome = "fenced_first" -> Some(<<"~~~json", "\n", "first", "\n", "~~~">>)
    [] outcome = "prose" -> Some(<<"prose">>)
    [] outcome = "fenced_prose" -> Some(<<"~~~", "\n", "prose", "\n", "~~~">>)
    [] outcome = "half_fenced" -> Some(<<"~~~json", "first">>)
    [] outcome = "prose_then_first" -> Some(<<"prose", "\n", "first">>)
    [] OTHER -> Some(<<"empty_object">>)

RECURSIVE LStrip(_)
LStrip(t) == IF t # <<>> /\ Head(t) \in Whitespace THEN LStrip(Tail(t)) ELSE t

\* str.strip()
Strip(t) == Reverse(LStrip(Reverse(LStrip(t))))

\* The two re.sub calls: an opening fence with the white space after it, then a
\* closing fence at the end with the white space before it, are removed.
StripFences(t) ==
  LET opened == IF t # <<>> /\ Head(t) \in {"~~~", "~~~json"} THEN LStrip(Tail(t)) ELSE t
  IN IF opened # <<>> /\ Last(opened) = "~~~"
     THEN Reverse(LStrip(Tail(Reverse(opened))))
     ELSE opened

\* A parser that picks the first JSON value out of the surrounding text.
JsonLoadsLenient(t) ==
  IF \E i \in DOMAIN t : t[i] \in JSONValues
  THEN Some(t[CHOOSE i \in DOMAIN t : t[i] \in JSONValues /\ \A j \in 1..(i - 1) : t[j] \notin JSONValues])
  ELSE None

\* json.loads: the value, or None when the text is not one JSON value.
json_loads(t) ==
  IF Len(Strip(t)) = 1 /\ Strip(t)[1] \in JSONValues THEN Some(Strip(t)[1]) ELSE None

\* Lines 66-81 and the .get calls that follow: the parsed object, or None when
\* the call, the parse or parsed.get (the value is no object) raises.
ParsedAnswer(outcome) ==
  IF ModelReply(outcome) = None THEN None
  ELSE LET value == json_loads(StripFences(Strip(Get(ModelReply(outcome)))))
       IN IF value = None \/ Get(value) \notin JSONObjects THEN None
          ELSE Some(ModelAnswer(Get(value)))

\* raw_text: the contents joined by newlines, cut to 3000 characters.
RawTextUncut(search_results) ==
  JoinLines([i \in DOMAIN search_results |-> search_results[i].content])

raw_text(search_results) ==
  Take(JoinLines([i \in DOMAIN search_results |-> search_results[i].content]),
       RawTextCap)

\* The text put into the prompt sent to the model; None: the model is not called.
ExtractionPromptAlways(search_results) == Some(raw_text(search_results))

ExtractionPrompt(search_results) ==
  IF IsBlank(raw_text(search_results)) THEN None ELSE Some(raw_text(search_results))

\* extract_entities_and_connections: the fallback for blank text without asking the
\* model, the fallback when the call or the parse raises, else the parsed answer
\* with its missing keys defaulted.
extract_entities_and_connections(search_results, outcome) ==
  IF ExtractionPrompt(search_results) = None \/ ParsedAnswer(outcome) = None
  THEN ExtractionFallback
  ELSE [entities_a |-> GetOr(Get(ParsedAnswer(outcome)).entities_a, <<>>),
        entities_b |-> GetOr(Get(ParsedAnswer(outcome)).entities_b, <<>>),
        connections |-> GetOr(Get(ParsedAnswer(outcome)).connections, <<>>),
        insight |-> GetOr(Get(ParsedAnswer(outcome)).insight, FallbackInsight)]

\* get_deeper_search_queries: the model's list cut to 3, or the 3 template queries
\* when the call fails or answers no non-empty list.
FallbackQueries == <<"a secret connections", "b hidden links", "a b conspiracy">>

\* The reply to the deeper-queries prompt: "error" the call raises, "prose" the
\* reply is no JSON, "object" it is a JSON object, else a JSON array.
DeeperRaises(outcome) == outcome \in {"error", "prose"}

DeeperIsList(outcome) == outcome \in {"one", "three", "four", "numbers", "empty"}

\* [str(q) for q in queries], before the cut.
RawQueries(outcome) ==
  CASE outcome = "one" -> <<"q1">>
    [] outcome = "three" -> <<"q1", "q2", "q3">>
    [] outcome = "four" -> <<"q1", "q2", "q3", "q4">>
    [] outcome = "numbers" -> <<"1", "2">>
    [] outcome = "object" -> <<"q1">>
    [] OTHER -> <<>>

DeeperQueriesUncut(outcome) ==
  IF DeeperRaises(outcome) \/ ~DeeperIsList(outcome) \/ RawQueries(outcome) = <<>>
  THEN FallbackQueries
  ELSE RawQueries(outcome)

get_deeper_search_queries(outcome) ==
  IF DeeperRaises(outcome) \/ ~DeeperIsList(outcome) \/ RawQueries(outcome) = <<>>
  THEN FallbackQueries
  ELSE Take(RawQueries(outcome), 3)

\* --------------------------------------------------------------- narrator.py
\* _SYSTEM_PROMPTS.get(round_num, _SYSTEM_PROMPTS[3]): the persona of the round.
SystemPrompt(rnd) ==
  CASE rnd = 1 -> "radio host"
    [] rnd = 2 -> "seeing the pattern"
    [] OTHER -> "fully unhinged"

\* The canned text of round 1, whatever the round.
NarrationFallbackFirst(rnd) == <<"I">>

\* _FALLBACKS.get(round_num, _FALLBACKS[3])
NarrationFallback(rnd) ==
  CASE rnd = 1 -> <<"I">>
    [] rnd = 2 -> <<"T", "H", "I", "S">>
    [] OTHER -> <<"T", "H", "E", "Y">>

\* generate_narration: the streamed text, stripped, or the round's canned text on
\* any error. The model speaks as the persona it was given ("ok") or streams
\* nothing but white space ("empty").
generate_narration(rnd, outcome) ==
  IF outcome = "error" THEN NarrationFallback(rnd)
  ELSE IF outcome = "empty" THEN Strip(<<" ", "\n">>)
  ELSE Strip(<<" ", SystemPrompt(rnd)>>)

\* ----------------------------------------------------------------- vision.py
\* analyze_image: "" without a client or on any error, else the stripped answer
\* (which may itself be empty).
analyze_image(url, outcome) == IF outcome = "clue" THEN <<"k">> ELSE <<>>

\* ------------------------------------------------------------------ senso.py
\* query_findings: "" without a key or on any error, else up to 500 characters.
SensoAnswerLen == 500

\* A client that asks the service even when SENSO_API_KEY is unset.
QueryFindingsWithoutKeyCheck(outcome) ==
  IF outcome \in {"answer", "no_key"} THEN Take(<<"p", "r", "e", "v">>, SensoAnswerLen)
  ELSE <<>>

\* "no_key": SENSO_API_KEY is unset, "" is returned before any request is made;
\* "answer": the service answers; anything else: the request raises.
query_findings(outcome) ==
  IF outcome = "no_key" THEN <<>>
  ELSE IF outcome = "answer" THEN Take(<<"p", "r", "e", "v">>, SensoAnswerLen)
  ELSE <<>>


\* ------------------------------------------------- agent.py: the summary
Suspicion(c) == Get(c.suspicion)

\* sorted(conns, key=suspicion, reverse=True): a stable sort, so connections of
\* equal suspicion keep their order in conns.
RECURSIVE SortAscending(_)
SortAscending(s) ==
  IF s = <<>> THEN <<>>
  ELSE LET rest == SortAscending(SubSeq(s, 1, Len(s) - 1))
           k == Cardinality({i \in DOMAIN rest : Suspicion(rest[i]) <= Suspicion(Last(s))})
       IN SubSeq(rest, 1, k) \o <<Last(s)>> \o SubSeq(rest, k + 1, Len(rest))

RECURSIVE SortBySuspicion(_)
SortBySuspicion(s) ==
  IF s = <<>> THEN <<>>
  ELSE LET rest == SortBySuspicion(SubSeq(s, 1, Len(s) - 1))
           k == Cardinality({i \in DOMAIN rest : Suspicion(rest[i]) >= Suspicion(Last(s))})
       IN SubSeq(rest, 1, k) \o <<Last(s)>> \o SubSeq(rest, k + 1, Len(rest))

\* The rows of top_connections, before they are cut down to three fields.
TopRows(cs) == Take(SortBySuspicion(cs), TopN)

TopConnections(cs) ==
  [i \in DOMAIN TopRows(cs) |->
     [from |-> TopRows(cs)[i].from, to |-> TopRows(cs)[i].to,
      relationship |-> Take(Get(TopRows(cs)[i].relationship), RelationshipDisplayLen)]]

CompleteEvent(tot, cs) ==
  [type |-> "complete", total_entities |-> tot, total_connections |-> Len(cs),
   top_connections |-> TopConnections(cs)]

\* ------------------------------------------------ server.py: on_event
Buffer(r) == GetOr(runs[r], <<>>)

\* _emit calls on_event, which first appends the event to the run's buffer; the
\* broadcast to the registered sockets is the thread's next step.
Emit(r, e) ==
  /\ runs' = [runs EXCEPT ![r] = Some(Append(Get(@), e))]
  /\ ev' = [ev EXCEPT ![r] = e]
  /\ oe' = [oe EXCEPT ![r] = "broadcast"]

NoEmit == UNCHANGED <<runs, emitVars>>

\* An on_event that only appends to the buffer.
OnEventNoBroadcast(r) ==
  /\ oe[r] = "broadcast"
  /\ oe' = [oe EXCEPT ![r] = "none"]
  /\ ev' = [ev EXCEPT ![r] = NoEvent]
  /\ UNCHANGED <<db, graphVars, harnessVars, threadVars, bufferVars, socketVars>>

\* for ws in list(_websockets[run_id]): run_coroutine_threadsafe(ws.send_json(event))
OnEventBroadcast(r) ==
  /\ oe[r] = "broadcast"
  /\ loopq' = loopq \o [i \in DOMAIN websockets[r] |->
                          [ws |-> websockets[r][i], event |-> ev[r]]]
  /\ oe' = [oe EXCEPT ![r] = "none"]
  /\ ev' = [ev EXCEPT ![r] = NoEvent]
  /\ UNCHANGED <<db, graphVars, harnessVars, threadVars, bufferVars, websockets, wpc,
                 wrun, snapshot, regAt, delivered>>

\* ------------------------------------------- server.py: start_run
\* POST /run: the three per-run entries are created and the thread is started.
StartRun(r, roundsArgs) ==
  /\ pc[r] = "idle"
  /\ \E n \in roundsArgs : local' = [local EXCEPT ![r].rounds = n]
  /\ runs' = [runs EXCEPT ![r] = Some(<<>>)]
  /\ run_complete' = [run_complete EXCEPT ![r] = FALSE]
  /\ websockets' = [websockets EXCEPT ![r] = <<>>]
  /\ pc' = [pc EXCEPT ![r] = "construct"]
  /\ UNCHANGED <<db, graphVars, harnessVars, own, emitVars, wpc, wrun, snapshot, regAt,
                 delivered, loopq>>

\* ------------------------------------------- agent.py: run_agent
Ready(r, at) == pc[r] = at /\ oe[r] = "none"

Goto(r, at) == pc' = [pc EXCEPT ![r] = at]

\* The order of the steps of a round, and of the summary after the last round.
StepAfterSearchFirst(at) ==
  CASE at = "round_start" -> "search"
    [] at = "search" -> "query"
    [] at = "query" -> "extract"
    [] at = "extract" -> "add_entities_a"
    [] at = "add_entities_a" -> "add_entities_b"
    [] at = "add_entities_b" -> "add_connections"
    [] at = "add_connections" -> "count"
    [] at = "count" -> "vision"
    [] at = "vision" -> "narrate"
    [] at = "narrate" -> "loop"
    [] at = "total" -> "conns"
    [] at = "conns" -> "close"

StepAfter(at) ==
  CASE at = "round_start" -> "query"
    [] at = "query" -> "search"
    [] at = "search" -> "extract"
    [] at = "extract" -> "add_entities_a"
    [] at = "add_entities_a" -> "add_entities_b"
    [] at = "add_entities_b" -> "add_connections"
    [] at = "add_connections" -> "count"
    [] at = "count" -> "vision"
    [] at = "vision" -> "narrate"
    [] at = "narrate" -> "loop"
    [] at = "total" -> "conns"
    [] at = "conns" -> "close"

\* An exception leaves run_agent: its frame, and so its local variables, are gone;
\* run_in_thread holds the exception. The count of the calls made is kept.
Raise(r, what) ==
  /\ pc' = [pc EXCEPT ![r] = "except"]
  /\ local' = [local EXCEPT ![r] = [NoLocals EXCEPT !.exc = Some(what),
                                                    !.invoked = local[r].invoked]]

\* graph = ConspiracyGraph()
RunConstruct(r, reachable) ==
  /\ Ready(r, "construct")
  /\ \E up \in reachable :
       /\ available' = [available EXCEPT ![r] = up]
       /\ driver' = [driver EXCEPT ![r] = up]
  /\ own' = [own EXCEPT ![r] = EmptyDB]
  /\ Goto(r, "clear")
  /\ NoEmit
  /\ UNCHANGED <<db, harnessVars, local, run_complete, socketVars>>

\* graph.clear()
RunClear(r) ==
  /\ Ready(r, "clear")
  /\ db' = clear(r, db)
  /\ own' = [own EXCEPT ![r] = clear(r, @)]
  /\ Goto(r, "loop")
  /\ NoEmit
  /\ UNCHANGED <<graphVars, harnessVars, local, run_complete, socketVars>>

\* The positions at which run_agent is inside a session.run of its graph.
GraphCallPcs == {"clear", "add_entities_a", "add_entities_b", "add_connections",
                 "count", "total", "conns"}

InGraphCall(r) ==
  /\ pc[r] \in GraphCallPcs
  /\ pc[r] \in {"add_entities_a", "add_entities_b"} =>
       local[r].idx < Len(IF pc[r] = "add_entities_a" THEN local[r].extracted.entities_a
                          ELSE local[r].extracted.entities_b)
  /\ pc[r] = "add_connections" =>
       /\ local[r].idx < Len(local[r].extracted.connections)
       /\ LET c == local[r].extracted.connections[local[r].idx + 1]
          IN IsSome(c.from) /\ IsSome(c.to) /\ IsSome(c.relationship)

\* session.run raises (the service went away after the driver was verified): no
\* method of ConspiracyGraph catches it, so it leaves run_agent.
GraphCallRaises(r) ==
  /\ oe[r] = "none"
  /\ InGraphCall(r)
  /\ Usable(r)
  /\ Raise(r, "ServiceUnavailable")
  /\ NoEmit
  /\ UNCHANGED <<db, graphVars, harnessVars, own, run_complete, socketVars>>

\* for round_num in range(1, rounds + 1): ... _emit("round_start")
RunLoop(r) ==
  /\ Ready(r, "loop")
  /\ IF local[r].round_num < local[r].rounds
     THEN /\ local' = [local EXCEPT ![r] =
               [@ EXCEPT !.round_num = @ + 1,
                         !.invoked = [NoCalls EXCEPT !.round = local[r].round_num + 1],
                         !.narration_error = FALSE]]
          /\ Emit(r, [type |-> "round_start", round |-> local[r].round_num + 1,
                      total_rounds |-> local[r].rounds])
          /\ Goto(r, StepAfter("round_start"))
     ELSE /\ Goto(r, "total")
          /\ NoEmit
          /\ UNCHANGED local
  /\ UNCHANGED <<db, graphVars, harnessVars, own, run_complete, socketVars>>

\* previous_context = query_findings(...); _emit("senso_query")
RunQuery(r, outcomes) ==
  /\ Ready(r, "query")
  /\ \E o \in outcomes :
       /\ local' = [local EXCEPT ![r] = [@ EXCEPT !.previous_context = query_findings(o),
                                                    !.invoked.query = @ + 1]]
       /\ Emit(r, [type |-> "senso_query", has_context |-> query_findings(o) # <<>>,
                   context_length |-> Len(query_findings(o))])
  /\ Goto(r, StepAfter("query"))
  /\ UNCHANGED <<db, graphVars, harnessVars, own, run_complete, socketVars>>

RECURSIVE Flatten(_)
Flatten(ss) == IF ss = <<>> THEN <<>> ELSE Head(ss) \o Flatten(Tail(ss))

PreviousFindings(context) ==
  IF context = <<>> THEN <<>>
  ELSE <<[title |-> "Previous Findings", url |-> "", content |-> context]>>

\* all_results = topic_a_results + topic_b_results; the "Previous Findings" result
\* is appended if there is a context; all_results += connection_results.
AssembleResultsContextSecond(topic_a_results, topic_b_results, context, connection_results) ==
  topic_a_results \o PreviousFindings(context) \o topic_b_results \o connection_results

AssembleResults(topic_a_results, topic_b_results, context, connection_results) ==
  topic_a_results \o topic_b_results \o PreviousFindings(context) \o connection_results

\* The searches of a round, in the order they are issued: the connection search,
\* from round 2 on one search per deeper query, then topic A and topic B.
SearchPlanExtrasFirst(rnd, deeper_queries) ==
  (IF rnd = 1 THEN <<>> ELSE deeper_queries) \o <<"connection", "topic_a", "topic_b">>

SearchPlan(rnd, deeper_queries) ==
  <<"connection">> \o (IF rnd = 1 THEN <<>> ELSE deeper_queries)
  \o <<"topic_a", "topic_b">>

DeeperCall(insight) == [fn |-> "get_deeper_search_queries", arg |-> insight]

SearchCall(query) == [fn |-> "search_topic", arg |-> query]

\* Step 2 of a round: from round 2 on the deeper queries are requested; the
\* searches of the plan are made; round_images takes the images in the order of
\* the searches; connection_results is all but the two topic searches;
\* _emit("search_complete").
RunSearch(r, searchOutcomes, deeperOutcomes) ==
  /\ Ready(r, "search")
  /\ \E od \in (IF local[r].round_num = 1 THEN {"error"} ELSE deeperOutcomes) :
       LET deeper_queries == IF local[r].round_num = 1 THEN <<>>
                             ELSE get_deeper_search_queries(od)
           plan == SearchPlan(local[r].round_num, deeper_queries)
           n == Len(plan)
       IN \E ox \in [DOMAIN plan -> searchOutcomes] :
            LET found == [i \in DOMAIN plan |-> search_topic(plan[i], ox[i])]
                connection_results ==
                  Flatten([i \in 1..(n - 2) |-> found[i].results])
                images == Flatten([i \in DOMAIN found |-> found[i].images])
                results ==
                  AssembleResults(found[n - 1].results, found[n].results,
                                  local[r].previous_context, connection_results)
            IN /\ local' = [local EXCEPT ![r] =
                    [@ EXCEPT !.all_results = results,
                              !.round_images = images,
                              !.calls = (IF local[r].round_num = 1 THEN <<>>
                                         ELSE <<DeeperCall(local[r].last_insight)>>)
                                        \o [i \in DOMAIN plan |-> SearchCall(plan[i])]]]
               /\ Emit(r, [type |-> "search_complete", result_count |-> Len(results),
                           round |-> local[r].round_num])
  /\ Goto(r, StepAfter("search"))
  /\ UNCHANGED <<db, graphVars, harnessVars, own, run_complete, socketVars>>

\* extracted = extract_entities_and_connections(...); _emit("extraction_complete")
RunExtract(r, outcomes) ==
  /\ Ready(r, "extract")
  /\ \E o \in outcomes :
       LET ex == extract_entities_and_connections(local[r].all_results, o)
       IN /\ local' = [local EXCEPT ![r] = [@ EXCEPT !.extracted = ex, !.idx = 0,
                                                    !.all_results = <<>>,
                                                    !.previous_context = <<>>,
                                                    !.calls = <<>>,
                                                    !.invoked.extract = @ + 1]]
          /\ Emit(r, [type |-> "extraction_complete", entities_a |-> ex.entities_a,
                      entities_b |-> ex.entities_b, connections |-> ex.connections,
                      insight |-> ex.insight])
  /\ Goto(r, StepAfter("extract"))
  /\ UNCHANGED <<db, graphVars, harnessVars, own, run_complete, socketVars>>

\* for entity in extracted["entities_a"]: graph.add_entity(entity, topic_a, round_num)
RunAddEntityA(r) ==
  /\ Ready(r, "add_entities_a")
  /\ IF local[r].idx < Len(local[r].extracted.entities_a)
     THEN LET name == local[r].extracted.entities_a[local[r].idx + 1]
          IN /\ db' = add_entity(r, db, name, TopicA, local[r].round_num)
             /\ own' = [own EXCEPT ![r] = add_entity(r, @, name, TopicA, local[r].round_num)]
             /\ local' = [local EXCEPT ![r].idx = @ + 1]
             /\ UNCHANGED pc
     ELSE /\ Goto(r, StepAfter("add_entities_a"))
          /\ local' = [local EXCEPT ![r].idx = 0]
          /\ UNCHANGED <<db, own>>
  /\ NoEmit
  /\ UNCHANGED <<graphVars, harnessVars, run_complete, socketVars>>

\* for entity in extracted["entities_b"]: graph.add_entity(entity, topic_b, round_num)
RunAddEntityB(r) ==
  /\ Ready(r, "add_entities_b")
  /\ IF local[r].idx < Len(local[r].extracted.entities_b)
     THEN LET name == local[r].extracted.entities_b[local[r].idx + 1]
          IN /\ db' = add_entity(r, db, name, TopicB, local[r].round_num)
             /\ own' = [own EXCEPT ![r] = add_entity(r, @, name, TopicB, local[r].round_num)]
             /\ local' = [local EXCEPT ![r].idx = @ + 1]
             /\ UNCHANGED pc
     ELSE /\ Goto(r, StepAfter("add_entities_b"))
          /\ local' = [local EXCEPT ![r].idx = 0]
          /\ UNCHANGED <<db, own>>
  /\ NoEmit
  /\ UNCHANGED <<graphVars, harnessVars, run_complete, socketVars>>

\* for conn in extracted["connections"]: graph.add_connection(conn["from"],
\* conn["to"], conn["relationship"], conn.get("suspicion_level", 5)); a missing
\* "from", "to" or "relationship" is a KeyError.
RunAddConnection(r) ==
  /\ Ready(r, "add_connections")
  /\ IF local[r].idx < Len(local[r].extracted.connections)
     THEN LET c == local[r].extracted.connections[local[r].idx + 1]
          IN IF IsSome(c.from) /\ IsSome(c.to) /\ IsSome(c.relationship)
             THEN /\ db' = add_connection(r, db, Get(c.from), Get(c.to),
                                          Get(c.relationship),
                                          GetOr(c.suspicion_level, DefaultSuspicion))
                  /\ own' = [own EXCEPT ![r] =
                               add_connection(r, @, Get(c.from), Get(c.to),
                                              Get(c.relationship),
                                              GetOr(c.suspicion_level, DefaultSuspicion))]
                  /\ local' = [local EXCEPT ![r].idx = @ + 1]
                  /\ UNCHANGED pc
             ELSE /\ Raise(r, "KeyError")
                  /\ UNCHANGED <<db, own>>
     ELSE /\ Goto(r, StepAfter("add_connections"))
          /\ local' = [local EXCEPT ![r].idx = 0]
          /\ UNCHANGED <<db, own>>
  /\ NoEmit
  /\ UNCHANGED <<graphVars, harnessVars, run_complete, socketVars>>

GraphUpdateEntities(ex) ==
  [i \in DOMAIN ex.entities_a |-> [name |-> ex.entities_a[i], topic |-> TopicA]]
  \o [i \in DOMAIN ex.entities_b |-> [name |-> ex.entities_b[i], topic |-> TopicB]]

\* entity_count = graph.get_entity_count(); _emit("graph_update"); store_finding,
\* which does nothing, follows.
RunCount(r) ==
  /\ Ready(r, "count")
  /\ local' = [local EXCEPT ![r] = [@ EXCEPT !.entity_count = get_entity_count(r, db),
                                            !.invoked.store = @ + 1]]
  /\ Emit(r, [type |-> "graph_update",
              entities |-> GraphUpdateEntities(local[r].extracted),
              connections |-> local[r].extracted.connections,
              entity_count |-> get_entity_count(r, db)])
  /\ Goto(r, StepAfter("count"))
  /\ UNCHANGED <<db, graphVars, harnessVars, own, run_complete, socketVars>>

\* The first two URLs of the list, duplicates included.
UniqueImagesNoDedupe(images) == Take(images, MaxVisionImages)

\* unique_images = list(dict.fromkeys(round_images))[:2]
UniqueImages(images) == Take(Dedupe(images), MaxVisionImages)

\* for image_url in unique_images: clue = analyze_image(...); if clue: _emit("image_clue")
RunVision(r, outcomes) ==
  /\ Ready(r, "vision")
  /\ IF local[r].idx < Len(UniqueImages(local[r].round_images))
     THEN \E o \in outcomes :
            LET url == UniqueImages(local[r].round_images)[local[r].idx + 1]
                clue == analyze_image(url, o)
            IN /\ local' = [local EXCEPT ![r] =
                    [@ EXCEPT !.idx = @ + 1,
                              !.analyzed = Append(@, [image_url |-> url, clue |-> clue])]]
               /\ IF clue # <<>>
                  THEN Emit(r, [type |-> "image_clue", image_url |-> url,
                                clue_text |-> clue, round |-> local[r].round_num])
                  ELSE NoEmit
               /\ UNCHANGED pc
     ELSE /\ Goto(r, StepAfter("vision"))
          /\ local' = [local EXCEPT ![r].idx = 0]
          /\ NoEmit
  /\ UNCHANGED <<db, graphVars, harnessVars, own, run_complete, socketVars>>

\* narration = generate_narration(...); _emit("narration"); last_insight = insight
RunNarrate(r, outcomes) ==
  /\ Ready(r, "narrate")
  /\ \E o \in outcomes :
       /\ Emit(r, [type |-> "narration",
                   text |-> generate_narration(local[r].round_num, o),
                   round |-> local[r].round_num])
       /\ local' = [local EXCEPT ![r] =
            [@ EXCEPT !.last_insight = local[r].extracted.insight,
                      !.extracted = NoExtraction,
                      !.entity_count = 0,
                      !.round_images = <<>>,
                      !.analyzed = <<>>,
                      !.invoked.narrate = @ + 1,
                      !.narration_error = (o = "error"),
                      !.connection_count = local[r].entity_count]]
  /\ Goto(r, StepAfter("narrate"))
  /\ UNCHANGED <<db, graphVars, harnessVars, own, run_complete, socketVars>>

\* total = graph.get_entity_count()
RunTotal(r) ==
  /\ Ready(r, "total")
  /\ local' = [local EXCEPT ![r].total = get_entity_count(r, db)]
  /\ Goto(r, StepAfter("total"))
  /\ NoEmit
  /\ UNCHANGED <<db, graphVars, harnessVars, own, run_complete, socketVars>>

\* conns = graph.get_connections()
RunConns(r) ==
  /\ Ready(r, "conns")
  /\ \E rows \in get_connections(r, db) : local' = [local EXCEPT ![r].conns = rows]
  /\ Goto(r, StepAfter("conns"))
  /\ NoEmit
  /\ UNCHANGED <<db, graphVars, harnessVars, own, run_complete, socketVars>>

\* graph.close()
RunClose(r) ==
  /\ Ready(r, "close")
  /\ driver' = close(r)
  /\ Goto(r, "complete")
  /\ NoEmit
  /\ UNCHANGED <<db, available, harnessVars, local, own, run_complete, socketVars>>

\* _emit("complete"); run_agent returns.
RunComplete(r) ==
  /\ Ready(r, "complete")
  /\ Emit(r, CompleteEvent(local[r].total, local[r].conns))
  /\ Goto(r, "finally")
  /\ UNCHANGED <<db, graphVars, harnessVars, local, own, run_complete, socketVars>>

\* ---------------------------------- server.py: start_run.run_in_thread
\* except Exception as e: on_event({"type": "error", "message": str(e)})
RunExceptSilent(r) ==
  /\ Ready(r, "except")
  /\ Goto(r, "finally")
  /\ NoEmit
  /\ UNCHANGED <<db, graphVars, harnessVars, local, own, run_complete, socketVars>>

RunExcept(r) ==
  /\ Ready(r, "except")
  /\ Emit(r, [type |-> "error", message |-> Get(local[r].exc)])
  /\ Goto(r, "finally")
  /\ UNCHANGED <<db, graphVars, harnessVars, local, own, run_complete, socketVars>>

\* finally: _run_complete[run_id] = True
RunFinally(r) ==
  /\ Ready(r, "finally")
  /\ run_complete' = [run_complete EXCEPT ![r] = TRUE]
  /\ local' = [local EXCEPT ![r] = NoLocals]
  /\ Goto(r, "done")
  /\ UNCHANGED <<db, graphVars, harnessVars, own, runs, emitVars, socketVars>>

\* ------------------------------------------------ one run, nobody watching
\* What an earlier run left in the database.
LeftoverDB ==
  AddConnectionDB(AddEntityDB(EmptyDB, "e3", TopicA, 1), "e3", "e1", <<"o">>, 7)

Init ==
  /\ db = LeftoverDB
  /\ available = [g \in Graphs |-> FALSE]
  /\ driver = [g \in Graphs |-> FALSE]
  /\ InitGraphs /\ InitThreads /\ InitServer

\* What the external services may do at each call of this run; the knowledge
\* store is not configured (no SENSO_API_KEY).
SearchOutcomes == {"ok", "fail"}
DeeperOutcomes == {"one"}
ExtractOutcomes == {"first", "no_from", "error"}
VisionOutcomes == {"clue", "none"}
NarrationOutcomes == {"ok"}
QueryOutcomes == {"no_key"}

Next ==
  \/ StartRun("r1", 0..MaxRounds)
  \/ \E r \in Runs : RunConstruct(r, BOOLEAN)
  \/ \E r \in Runs : RunClear(r)
  \/ \E r \in Runs : GraphCallRaises(r)
  \/ \E r \in Runs : RunLoop(r)
  \/ \E r \in Runs : RunQuery(r, QueryOutcomes)
  \/ \E r \in Runs : RunSearch(r, SearchOutcomes, DeeperOutcomes)
  \/ \E r \in Runs : RunExtract(r, ExtractOutcomes)
  \/ \E r \in Runs : RunAddEntityA(r)
  \/ \E r \in Runs : RunAddEntityB(r)
  \/ \E r \in Runs : RunAddConnection(r)
  \/ \E r \in Runs : RunCount(r)
  \/ \E r \in Runs : RunVision(r, VisionOutcomes)
  \/ \E r \in Runs : RunNarrate(r, NarrationOutcomes)
  \/ \E r \in Runs : RunTotal(r)
  \/ \E r \in Runs : RunConns(r)
  \/ \E r \in Runs : RunClose(r)
  \/ \E r \in Runs : RunComplete(r)
  \/ \E r \in Runs : RunExcept(r)
  \/ \E r \in Runs : RunFinally(r)
  \/ \E r \in Runs : OnEventBroadcast(r)

Spec == Init /\ [][Next]_vars

\* ------------------------------------- one run, every service answering
\* The graph service is reachable and stays so and every search answers; a model
\* call answers with well-formed data or fails, and the knowledge store answers
\* or fails.
ReliableExtractOutcomes == {"first", "second", "error"}
ReliableDeeperOutcomes == {"one", "four", "error"}
ReliableNarrationOutcomes == {"ok", "error"}
ReliableQueryOutcomes == {"answer", "error"}

ReliableNext ==
  \/ StartRun("r1", 0..MaxRounds)
  \/ \E r \in Runs : RunConstruct(r, {TRUE})
  \/ \E r \in Runs : RunClear(r)
  \/ \E r \in Runs : RunLoop(r)
  \/ \E r \in Runs : RunQuery(r, ReliableQueryOutcomes)
  \/ \E r \in Runs : RunSearch(r, {"ok"}, ReliableDeeperOutcomes)
  \/ \E r \in Runs : RunExtract(r, ReliableExtractOutcomes)
  \/ \E r \in Runs : RunAddEntityA(r)
  \/ \E r \in Runs : RunAddEntityB(r)
  \/ \E r \in Runs : RunAddConnection(r)
  \/ \E r \in Runs : RunCount(r)
  \/ \E r \in Runs : RunVision(r, {"clue"})
  \/ \E r \in Runs : RunNarrate(r, ReliableNarrationOutcomes)
  \/ \E r \in Runs : RunTotal(r)
  \/ \E r \in Runs : RunConns(r)
  \/ \E r \in Runs : RunClose(r)
  \/ \E r \in Runs : RunComplete(r)
  \/ \E r \in Runs : RunFinally(r)
  \/ \E r \in Runs : OnEventBroadcast(r)

ReliableSpec == Init /\ [][ReliableNext]_vars

\* ----------------------------------- one run, the image answers varying
\* Every search answers, with the usual images or with a gallery; the vision
\* model returns a clue or nothing; the other services answer.
GallerySearchOutcomes == {"ok", "gallery"}

VisionNext ==
  \/ StartRun("r1", 0..MaxRounds)
  \/ \E r \in Runs : RunConstruct(r, {TRUE})
  \/ \E r \in Runs : RunClear(r)
  \/ \E r \in Runs : RunLoop(r)
  \/ \E r \in Runs : RunQuery(r, {"error"})
  \/ \E r \in Runs : RunSearch(r, GallerySearchOutcomes, {"one"})
  \/ \E r \in Runs : RunExtract(r, {"first"})
  \/ \E r \in Runs : RunAddEntityA(r)
  \/ \E r \in Runs : RunAddEntityB(r)
  \/ \E r \in Runs : RunAddConnection(r)
  \/ \E r \in Runs : RunCount(r)
  \/ \E r \in Runs : RunVision(r, VisionOutcomes)
  \/ \E r \in Runs : RunNarrate(r, {"ok"})
  \/ \E r \in Runs : RunTotal(r)
  \/ \E r \in Runs : RunConns(r)
  \/ \E r \in Runs : RunClose(r)
  \/ \E r \in Runs : RunComplete(r)
  \/ \E r \in Runs : RunFinally(r)
  \/ \E r \in Runs : OnEventBroadcast(r)

VisionSpec == Init /\ [][VisionNext]_vars

\* --------------------------------- one run, the narrator answering or not
\* Up to MaxNarratedRounds rounds without a graph service; the narrator's model
\* answers, streams nothing, or fails; every other model call fails.
NarratorOutcomes == {"ok", "empty", "error"}

NarrationNext ==
  \/ StartRun("r1", 0..MaxNarratedRounds)
  \/ \E r \in Runs : RunConstruct(r, {FALSE})
  \/ \E r \in Runs : RunClear(r)
  \/ \E r \in Runs : RunLoop(r)
  \/ \E r \in Runs : RunQuery(r, {"error"})
  \/ \E r \in Runs : RunSearch(r, {"ok"}, {"error"})
  \/ \E r \in Runs : RunExtract(r, {"error"})
  \/ \E r \in Runs : RunAddEntityA(r)
  \/ \E r \in Runs : RunAddEntityB(r)
  \/ \E r \in Runs : RunAddConnection(r)
  \/ \E r \in Runs : RunCount(r)
  \/ \E r \in Runs : RunVision(r, {"none"})
  \/ \E r \in Runs : RunNarrate(r, NarratorOutcomes)
  \/ \E r \in Runs : RunTotal(r)
  \/ \E r \in Runs : RunConns(r)
  \/ \E r \in Runs : RunClose(r)
  \/ \E r \in Runs : RunComplete(r)
  \/ \E r \in Runs : RunFinally(r)
  \/ \E r \in Runs : OnEventBroadcast(r)

NarrationSpec == Init /\ [][NarrationNext]_vars



\* ------------------------------------- server.py: websocket_endpoint
\* await websocket.accept()
WsAccept(w, rid) ==
  /\ wpc[w] = "closed"
  /\ wrun' = [wrun EXCEPT ![w] = rid]
  /\ wpc' = [wpc EXCEPT ![w] = "accepted"]
  /\ UNCHANGED <<db, graphVars, harnessVars, threadVars, bufferVars, emitVars,
                 websockets, snapshot, regAt, delivered, loopq>>

\* if run_id not in _runs: send the error, close, return; else take the copy
\* list(_runs[run_id]) that the replay loop iterates.
WsLookup(w) ==
  /\ wpc[w] = "accepted"
  /\ IF runs[wrun[w]] = None
     THEN /\ delivered' = [delivered EXCEPT ![w] =
                             Append(@, [type |-> "error", message |-> "Unknown run_id"])]
          /\ wpc' = [wpc EXCEPT ![w] = "rejected"]
          /\ UNCHANGED snapshot
     ELSE /\ snapshot' = [snapshot EXCEPT ![w] = Buffer(wrun[w])]
          /\ wpc' = [wpc EXCEPT ![w] = "replay"]
          /\ UNCHANGED delivered
  /\ UNCHANGED <<db, graphVars, harnessVars, threadVars, bufferVars, emitVars,
                 websockets, wrun, regAt, loopq>>

\* for event in <the copy>: await websocket.send_json(event)
WsReplay(w) ==
  /\ wpc[w] = "replay"
  /\ snapshot[w] # <<>>
  /\ delivered' = [delivered EXCEPT ![w] = Append(@, Head(snapshot[w]))]
  /\ snapshot' = [snapshot EXCEPT ![w] = Tail(@)]
  /\ UNCHANGED <<db, graphVars, harnessVars, threadVars, bufferVars, emitVars,
                 websockets, wpc, wrun, regAt, loopq>>

\* _websockets.setdefault(run_id, []).append(websocket)
WsRegister(w) ==
  /\ wpc[w] = "replay"
  /\ snapshot[w] = <<>>
  /\ websockets' = [websockets EXCEPT ![wrun[w]] = Append(@, w)]
  /\ regAt' = [regAt EXCEPT ![w] = Len(Buffer(wrun[w]))]
  /\ wpc' = [wpc EXCEPT ![w] = "wait"]
  /\ UNCHANGED <<db, graphVars, harnessVars, threadVars, bufferVars, emitVars,
                 wrun, snapshot, delivered, loopq>>

\* while not _run_complete.get(run_id, False): the loop ends once the flag is set
\* (a timeout or a received text only repeats the test).
WsLoopExit(w) ==
  /\ wpc[w] = "wait"
  /\ run_complete[wrun[w]]
  /\ wpc' = [wpc EXCEPT ![w] = "finally"]
  /\ UNCHANGED <<db, graphVars, harnessVars, threadVars, bufferVars, emitVars,
                 websockets, wrun, snapshot, regAt, delivered, loopq>>

\* The client goes away: WebSocketDisconnect from send_json during the replay
\* (outside the try: the handler ends) or from receive_text in the loop (break).
WsDisconnect(w) ==
  /\ \/ /\ wpc[w] = "replay"
        /\ snapshot[w] # <<>>
        /\ wpc' = [wpc EXCEPT ![w] = "returned"]
     \/ /\ wpc[w] = "wait"
        /\ ~run_complete[wrun[w]]
        /\ wpc' = [wpc EXCEPT ![w] = "disconnected"]
  /\ UNCHANGED <<db, graphVars, harnessVars, threadVars, bufferVars, emitVars,
                 websockets, wrun, snapshot, regAt, delivered, loopq>>

\* finally: _websockets[run_id].remove(websocket)
WsFinally(w) ==
  /\ wpc[w] \in {"finally", "disconnected"}
  /\ websockets' = [websockets EXCEPT ![wrun[w]] =
                      SelectSeq(@, LAMBDA x : x # w)]
  /\ regAt' = [regAt EXCEPT ![w] = 0]
  /\ wpc' = [wpc EXCEPT ![w] = "returned"]
  /\ UNCHANGED <<db, graphVars, harnessVars, threadVars, bufferVars, emitVars,
                 wrun, snapshot, delivered, loopq>>

\* The event loop runs the oldest scheduled ws.send_json(event): the client gets
\* the event unless the socket is closed by then (the send then fails inside its
\* future, which nobody reads).
LoopSend ==
  /\ loopq # <<>>
  /\ delivered' = [delivered EXCEPT ![Head(loopq).ws] =
                     IF wpc[Head(loopq).ws] \in {"wait", "finally"}
                     THEN Append(@, Head(loopq).event) ELSE @]
  /\ loopq' = Tail(loopq)
  /\ UNCHANGED <<db, graphVars, harnessVars, threadVars, bufferVars, emitVars,
                 websockets, wpc, wrun, snapshot, regAt>>

\* ------------------------------------------- one run and its observers
\* A one-round run whose searches find nothing; one client connects to it at
\* any moment, another asks for a run id the server does not know.
Connects == {<<"w1", "r1">>, <<"w2", "r2">>}

ServerNext ==
  \/ StartRun("r1", {1})
  \/ \E r \in Runs : RunConstruct(r, {FALSE})
  \/ \E r \in Runs : RunClear(r)
  \/ \E r \in Runs : RunLoop(r)
  \/ \E r \in Runs : RunQuery(r, {"error"})
  \/ \E r \in Runs : RunSearch(r, {"fail"}, {"error"})
  \/ \E r \in Runs : RunExtract(r, {"error"})
  \/ \E r \in Runs : RunAddEntityA(r)
  \/ \E r \in Runs : RunAddEntityB(r)
  \/ \E r \in Runs : RunAddConnection(r)
  \/ \E r \in Runs : RunCount(r)
  \/ \E r \in Runs : RunVision(r, {"none"})
  \/ \E r \in Runs : RunNarrate(r, {"ok"})
  \/ \E r \in Runs : RunTotal(r)
  \/ \E r \in Runs : RunConns(r)
  \/ \E r \in Runs : RunClose(r)
  \/ \E r \in Runs : RunComplete(r)
  \/ \E r \in Runs : RunFinally(r)
  \/ \E r \in Runs : OnEventBroadcast(r)
  \/ \E c \in Connects : WsAccept(c[1], c[2])
  \/ \E w \in Sockets : WsLookup(w)
  \/ \E w \in Sockets : WsReplay(w)
  \/ \E w \in Sockets : WsRegister(w)
  \/ \E w \in Sockets : WsLoopExit(w)
  \/ \E w \in Sockets : WsDisconnect(w)
  \/ \E w \in Sockets : WsFinally(w)
  \/ LoopSend

ServerSpec == Init /\ [][ServerNext]_vars

\* The wait loop re-tests the flag at least every second (the receive times out
\* after 1.0 s), and the event loop runs a handler that can go on.
ServerLiveSpec ==
  /\ Init /\ [][ServerNext]_vars
  /\ \A w \in Sockets : WF_vars(WsLoopExit(w)) /\ WF_vars(WsFinally(w))

\* ------------------------------------------------ two runs at once
\* Two POST /run requests: each thread runs one round against the same
\* NEO4J_URI, every service answering.
ConcurrentNext ==
  \/ \E r \in Runs : StartRun(r, {1})
  \/ \E r \in Runs : RunConstruct(r, {TRUE})
  \/ \E r \in Runs : RunClear(r)
  \/ \E r \in Runs : RunLoop(r)
  \/ \E r \in Runs : RunQuery(r, {"error"})
  \/ \E r \in Runs : RunSearch(r, {"ok"}, {"error"})
  \/ \E r \in Runs : RunExtract(r, {"first"})
  \/ \E r \in Runs : RunAddEntityA(r)
  \/ \E r \in Runs : RunAddEntityB(r)
  \/ \E r \in Runs : RunAddConnection(r)
  \/ \E r \in Runs : RunCount(r)
  \/ \E r \in Runs : RunVision(r, {"none"})
  \/ \E r \in Runs : RunNarrate(r, {"ok"})
  \/ \E r \in Runs : RunTotal(r)
  \/ \E r \in Runs : RunConns(r)
  \/ \E r \in Runs : RunClose(r)
  \/ \E r \in Runs : RunComplete(r)
  \/ \E r \in Runs : RunFinally(r)
  \/ \E r \in Runs : OnEventBroadcast(r)

ConcurrentSpec == Init /\ [][ConcurrentNext]_vars


\* --------------------------------------- the extractor, called directly
\* One call of one of its two functions, on any of the sample inputs.
\* Contents as search_topic and query_findings produce them: at most 500
\* characters each.
Repeat(c, n) == [i \in 1..n |-> c]

SampleContents == {<<"a">>, <<" ">>, Repeat("x", TruncateLen)}

ResultWith(content) == [title |-> "T", url |-> "u", content |-> content]

SampleResults ==
  UNION {[1..n -> {ResultWith(c) : c \in SampleContents}] : n \in 0..MaxResults}

SampleReplies == {"first", "empty_object", "[1]", "padded_first", "fenced_first", "prose",
                  "fenced_prose", "half_fenced", "prose_then_first", "error"}

SampleDeeperReplies == {"one", "three", "four", "numbers", "empty", "object", "prose",
                        "error"}

\* extract_entities_and_connections(topic_a, topic_b, search_results)
X_extract ==
  /\ ret.op = "none"
  /\ \E sr \in SampleResults, o \in SampleReplies :
       /\ Len(sr) <= 2 \/ o = "first"
       /\ ret' = [op |-> "extract",
                  val |-> [search_results |-> sr, outcome |-> o,
                           prompt |-> ExtractionPrompt(sr),
                           returned |-> extract_entities_and_connections(sr, o)]]
  /\ UNCHANGED <<db, graphVars, nops, lastEntity, lastConn, threadVars, bufferVars,
                 emitVars, socketVars>>

\* get_deeper_search_queries(topic_a, topic_b, previous_insight)
X_deeper ==
  /\ ret.op = "none"
  /\ \E o \in SampleDeeperReplies :
       ret' = [op |-> "deeper",
               val |-> [outcome |-> o, returned |-> get_deeper_search_queries(o)]]
  /\ UNCHANGED <<db, graphVars, nops, lastEntity, lastConn, threadVars, bufferVars,
                 emitVars, socketVars>>

ExtractorNext == X_extract \/ X_deeper

ExtractorSpec == Init /\ [][ExtractorNext]_vars

\* ======================================================================
\* Properties
\* ======================================================================
EventTypes(b) == [i \in DOMAIN b |-> b[i].type]

IsTerminal(e) == e.type \in {"complete", "error"}

\* run_agent has returned normally and run_in_thread is about to set the flag.
Returned(r) == pc[r] = "finally" /\ oe[r] = "none" /\ local[r].exc = None

\* The events of one round, image clues left out, in order.
RoundPattern == <<"round_start", "senso_query", "search_complete",
                  "extraction_complete", "graph_update", "narration">>

NotClue(e) == e.type # "image_clue"

\* The round an event belongs to: the number of round_start events up to it.
RoundOf(b, i) == Cardinality({j \in 1..i : b[j].type = "round_start"})

\* The buffer is, for each round 1..n in order, the six events of RoundPattern with
\* image clues only between graph_update and narration, then one complete event.
ShapeOK(b, n) ==
  LET core == SelectSeq(b, NotClue)
  IN /\ Len(core) = Len(RoundPattern) * n + 1
     /\ \A k \in 1..n : \A j \in DOMAIN RoundPattern :
          core[Len(RoundPattern) * (k - 1) + j].type = RoundPattern[j]
     /\ Last(core).type = "complete"
     /\ \A i \in DOMAIN b :
          /\ b[i].type \in {"round_start", "search_complete", "narration", "image_clue"} =>
               b[i].round = RoundOf(b, i)
          /\ b[i].type = "round_start" => b[i].total_rounds = n
          /\ b[i].type = "image_clue" =>
               /\ i > 1 /\ b[i - 1].type \in {"graph_update", "image_clue"}
               /\ i < Len(b) /\ b[i + 1].type \in {"image_clue", "narration"}

\* C2: a run with rounds >= 1 in which nothing raises emits, for each round in
\* increasing order, round_start, senso_query, search_complete,
\* extraction_complete, graph_update, zero or more image_clue, narration, and
\* after the last round one complete event; a round whose image list is empty
\* emits no image_clue.
C2_EventSequence ==
  \A r \in Runs :
    /\ (Returned(r) /\ local[r].rounds >= 1) => ShapeOK(Buffer(r), local[r].rounds)
    /\ (pc[r] \in {"vision", "narrate"} /\ local[r].round_images = <<>>) =>
         \A i \in DOMAIN Buffer(r) :
           Buffer(r)[i].type = "image_clue" => Buffer(r)[i].round # local[r].round_num

C2_Witness ==
  /\ Returned("r1") /\ local["r1"].rounds = 2
  /\ \E i \in DOMAIN Buffer("r1") :
       Buffer("r1")[i].type = "image_clue" /\ Buffer("r1")[i].round = 2
  /\ ~ \E i \in DOMAIN Buffer("r1") :
       Buffer("r1")[i].type = "image_clue" /\ Buffer("r1")[i].round = 1

\* C3: whatever external call fails, the run ends by emitting complete.
C3_NoFailureIsFatal ==
  \A r \in Runs : run_complete[r] => Last(Buffer(r)).type = "complete"

\* C6: after clear() the store counts no entity and lists no connection, and
\* because run_agent clears before its first round, what a run reads from the
\* store is what the run itself has put there: nothing of an earlier run.
BetweenClearAndClose(r) ==
  pc[r] \in {"loop", "query", "search", "extract", "add_entities_a", "add_entities_b",
             "add_connections", "count", "vision", "narrate", "total", "conns", "close"}

C6_ClearEmpties ==
  /\ \A g \in Graphs :
       /\ get_entity_count(g, clear(g, db)) = 0
       /\ get_connections(g, clear(g, db)) = {<<>>}
  /\ \A r \in Runs : BetweenClearAndClose(r) =>
       /\ get_entity_count(r, db) = CountDB(own[r])
       /\ get_connections(r, db) = ReturnOrders(ConnectionsDB(own[r]))
       /\ local[r].round_num = 0 => get_entity_count(r, db) = 0

C6_Witness ==
  /\ pc["r1"] = "count" /\ Usable("r1")
  /\ CountDB(db) = 3
  /\ ~ \E i \in DOMAIN db.rels : db.rels[i].from = "e3"

\* C7: on a store that is not available every operation returns its default and
\* changes nothing, no graph call raises, and the run's complete event reports
\* no entity and no connection.
Complete0 ==
  [type |-> "complete", total_entities |-> 0, total_connections |-> 0,
   top_connections |-> <<>>]

C7_UnavailableIsInert ==
  /\ \A g \in Graphs : ~available[g] =>
       /\ clear(g, db) = db
       /\ \A n \in Names, t \in {TopicA, TopicB}, k \in 1..MaxRounds :
            add_entity(g, db, n, t, k) = db
       /\ \A f \in Names, t \in Names, s \in {3, DefaultSuspicion, 9} :
            add_connection(g, db, f, t, <<"x">>, s) = db
       /\ get_entity_count(g, db) = 0
       /\ get_connections(g, db) = {<<>>}
       /\ get_all_entities(g, db) = {<<>>}
       /\ close(g) = driver
  /\ \A r \in Runs : (~available[r] /\ pc[r] # "idle") =>
       /\ db = LeftoverDB
       /\ local[r].exc # Some("ServiceUnavailable")
       /\ Returned(r) => Last(Buffer(r)) = Complete0

C7_Witness ==
  /\ Returned("r1") /\ ~available["r1"] /\ local["r1"].rounds = 2
  /\ \E i \in DOMAIN Buffer("r1") :
       /\ Buffer("r1")[i].type = "graph_update"
       /\ Buffer("r1")[i].entities # <<>>
       /\ Buffer("r1")[i].entity_count = 0

\* C9: a run's buffer holds at most one terminal event (complete or error), always
\* as its last event; an exception that left run_agent is there as the error
\* event when run_in_thread reaches its finally; the completion flag is set only
\* once the terminal event is in the buffer and has been broadcast.
Terminals(b) == {i \in DOMAIN b : IsTerminal(b[i])}

RowOf(cs, t) == CHOOSE j \in DOMAIN cs : cs[j].from = t.from /\ cs[j].to = t.to

Before(cs, i, j) ==
  \/ Suspicion(cs[i]) > Suspicion(cs[j])
  \/ Suspicion(cs[i]) = Suspicion(cs[j]) /\ i < j

C10_TopConnections ==
  \A r \in Runs : Returned(r) =>
    LET e == Last(Buffer(r))
        cs == local[r].conns
        top == e.top_connections
        kept == {RowOf(cs, top[i]) : i \in DOMAIN top}
    IN /\ e.type = "complete"
       /\ e.total_connections = Len(cs)
       /\ Len(top) = IF Len(cs) > TopN THEN TopN ELSE Len(cs)
       /\ \A i \in DOMAIN top :
            /\ \E j \in DOMAIN cs : cs[j].from = top[i].from /\ cs[j].to = top[i].to
            /\ top[i].relationship =
                 Take(Get(cs[RowOf(cs, top[i])].relationship), RelationshipDisplayLen)
       /\ \A i \in DOMAIN top : \A k \in DOMAIN top :
            i < k => Before(cs, RowOf(cs, top[i]), RowOf(cs, top[k]))
       /\ \A j \in DOMAIN cs \ kept : \A i \in kept : Before(cs, i, j)

C10_Witness ==
  /\ Returned("r1")
  /\ Len(local["r1"].conns) > TopN
  /\ Last(Buffer("r1")).type = "complete"
  /\ Len(Last(Buffer("r1")).top_connections) = TopN
  /\ \E i \in DOMAIN local["r1"].conns : \E j \in DOMAIN local["r1"].conns :
       /\ i < j
       /\ Suspicion(local["r1"].conns[i]) = 3
       /\ Suspicion(local["r1"].conns[j]) = 9
  /\ \E i \in DOMAIN local["r1"].conns : \E j \in DOMAIN local["r1"].conns :
       i # j /\ Suspicion(local["r1"].conns[i]) = Suspicion(local["r1"].conns[j])


\* C1: an observer that attached to a run has received, at every moment, a prefix
\* of the run's buffer (each event once, in emission order, none skipped), and
\* all of it once the run is complete and no send to it is pending.
PendingFor(w) == \E i \in DOMAIN loopq : loopq[i].ws = w

C1_BacklogThenLive ==
  \A w \in Sockets : wpc[w] \in {"replay", "wait", "finally"} =>
    /\ IsPrefix(delivered[w], Buffer(wrun[w]))
    /\ (wpc[w] = "wait" /\ run_complete[wrun[w]] /\ ~PendingFor(w)) =>
         delivered[w] = Buffer(wrun[w])

\* C4: on a usable store there is one entity record per name, and the record of a
\* name carries the topic and round of the latest add_entity for it.
C4_OneEntityPerName ==
  Usable(HarnessGraph) =>
    \A rows \in get_all_entities(HarnessGraph, db) : \A n \in Names :
      /\ Cardinality({i \in DOMAIN rows : rows[i].name = n}) <= 1
      /\ IsSome(lastEntity[n]) =>
           \E i \in DOMAIN rows :
             /\ rows[i].name = n
             /\ rows[i].topic = Some(Get(lastEntity[n]).args.topic)
             /\ rows[i].round = Some(Get(lastEntity[n]).args.round)

C4_Witness ==
  /\ Usable(HarnessGraph)
  /\ lastEntity["e1"] = Some([args |-> [topic |-> TopicB, round |-> 2],
                             before |-> Some([topic |-> TopicA, round |-> 1])])
  /\ IsSome(lastEntity["e2"])
  /\ Len(db.nodes) = 2

\* C5: on a usable store there is at most one connection per ordered pair, with
\* the relationship and suspicion of the latest add_connection for that pair;
\* (a, b) and (b, a) are two connections.
C5_OneConnectionPerPair ==
  Usable(HarnessGraph) =>
    \A rows \in get_connections(HarnessGraph, db) : \A p \in Names \X Names :
      /\ Cardinality({i \in DOMAIN rows : rows[i].from = p[1] /\ rows[i].to = p[2]}) <= 1
      /\ IsSome(lastConn[p]) =>
           \E i \in DOMAIN rows :
             /\ rows[i].from = p[1] /\ rows[i].to = p[2]
             /\ rows[i].relationship = Some(Get(lastConn[p]).args.relationship)
             /\ rows[i].suspicion = Some(Get(lastConn[p]).args.suspicion)

C5_Witness ==
  /\ Usable(HarnessGraph)
  /\ IsSome(lastConn[<<"e1", "e2">>]) /\ IsSome(lastConn[<<"e2", "e1">>])
  /\ IsSome(Get(lastConn[<<"e1", "e2">>]).before)
  /\ Get(Get(lastConn[<<"e1", "e2">>]).before) # Get(lastConn[<<"e1", "e2">>]).args
  /\ Get(lastConn[<<"e2", "e1">>]).args # Get(lastConn[<<"e1", "e2">>]).args
  /\ Len(db.rels) = 2

\* C8: what a run reports depends on its own upserts only: the entity_count of a
\* graph_update is the number of names the run has upserted up to then, and the
\* complete event counts the names and the ordered pairs of the whole run and
\* ranks only those pairs.
OwnNames(e) ==
  {e.entities[i].name : i \in DOMAIN e.entities}
  \cup {Get(e.connections[i].from) : i \in DOMAIN e.connections}
  \cup {Get(e.connections[i].to) : i \in DOMAIN e.connections}

OwnPairs(e) ==
  {<<Get(e.connections[i].from), Get(e.connections[i].to)>> : i \in DOMAIN e.connections}

Updates(b, i) == {j \in 1..i : b[j].type = "graph_update"}

C8_RunsIsolated ==
  \A r \in Runs : available[r] =>
    \A i \in DOMAIN Buffer(r) :
      LET b == Buffer(r)
          names == UNION {OwnNames(b[j]) : j \in Updates(b, i)}
          pairs == UNION {OwnPairs(b[j]) : j \in Updates(b, i)}
      IN /\ b[i].type = "graph_update" => b[i].entity_count = Cardinality(names)
         /\ b[i].type = "complete" =>
              /\ b[i].total_entities = Cardinality(names)
              /\ b[i].total_connections = Cardinality(pairs)
              /\ \A k \in DOMAIN b[i].top_connections :
                   <<b[i].top_connections[k].from, b[i].top_connections[k].to>> \in pairs


\* C11: on an available store the complete event's total_entities is the number
\* of distinct names among the entity lists and the connection endpoints that the
\* run's extractions returned; on an unavailable store it is 0.
Extractions(b) == {i \in DOMAIN b : b[i].type = "extraction_complete"}

ExtractedNames(e) ==
  {e.entities_a[i] : i \in DOMAIN e.entities_a}
  \cup {e.entities_b[i] : i \in DOMAIN e.entities_b}
  \cup {Get(e.connections[i].from) : i \in DOMAIN e.connections}
  \cup {Get(e.connections[i].to) : i \in DOMAIN e.connections}

ListedEntities(e) == Len(e.entities_a) + Len(e.entities_b)

SensoQueries(b) == {i \in DOMAIN b : b[i].type = "senso_query"}

C12_NoKeyNoContext ==
  \A r \in Runs :
    /\ \A i \in SensoQueries(Buffer(r)) :
         ~Buffer(r)[i].has_context /\ Buffer(r)[i].context_length = 0
    /\ \A j \in DOMAIN local[r].all_results :
         local[r].all_results[j].title # "Previous Findings"
    /\ Returned(r) =>
         /\ Last(Buffer(r)).type = "complete"
         /\ Cardinality(SensoQueries(Buffer(r))) = local[r].rounds

C12_Witness ==
  /\ Returned("r1") /\ local["r1"].rounds = 2
  /\ Cardinality(SensoQueries(Buffer("r1"))) = 2
  /\ \E i \in DOMAIN Buffer("r1") :
       Buffer("r1")[i].type = "search_complete" /\ Buffer("r1")[i].result_count = 3


\* C13: no answer of the language model makes run_agent raise: after an
\* extraction_complete event the round goes on to graph_update, so no run is
\* ever ended by a KeyError on a connection object, and an error event never
\* follows an extraction_complete event unless the graph service failed.
C13_MalformedOutputTolerated ==
  \A r \in Runs :
    /\ local[r].exc # Some("KeyError")
    /\ \A i \in DOMAIN Buffer(r) :
         (i > 1 /\ Buffer(r)[i].type = "error"
                /\ Buffer(r)[i - 1].type = "extraction_complete") =>
           Buffer(r)[i].message = "ServiceUnavailable"


\* The contents of the results handed to extract, and the outcome of the call.
Contents(sr) == [i \in DOMAIN sr |-> sr[i].content]

Extracted == ret.op = "extract"

\* C14: when the concatenated contents are empty or all white space (the empty
\* list included) extract returns the fallback and sends nothing to the model.
C14_BlankInputSkipsModel ==
  (Extracted /\ IsBlank(Flatten(Contents(ret.val.search_results)))) =>
    /\ ret.val.prompt = None
    /\ ret.val.returned = ExtractionFallback

C14_Witness ==
  /\ Extracted
  /\ Len(ret.val.search_results) = 2
  /\ IsBlank(Flatten(Contents(ret.val.search_results)))
  /\ ret.val.outcome = "first"
  /\ ret.val.prompt = None
  /\ ret.val.returned = ExtractionFallback

\* C15: when the model call raises or its reply is not JSON, fenced or not,
\* extract returns the fallback: no entities, no connections, the canned insight.
NotJSON == {"error", "prose", "fenced_prose", "prose_then_first"}

C15_ExtractFallsBack ==
  (Extracted /\ ret.val.outcome \in NotJSON) =>
    /\ ret.val.returned.entities_a = <<>>
    /\ ret.val.returned.entities_b = <<>>
    /\ ret.val.returned.connections = <<>>
    /\ ret.val.returned.insight = FallbackInsight

C15_Witness ==
  /\ Extracted
  /\ ret.val.outcome = "fenced_prose"
  /\ ret.val.prompt # None
  /\ ret.val.returned = ExtractionFallback

\* C16: deeperQueries returns at most 3 strings, and exactly the 3 template
\* queries when the call raises or the reply is not a non-empty JSON array.
NoQueryList == {"error", "prose", "object", "empty"}

C16_DeeperQueries ==
  ret.op = "deeper" =>
    /\ Len(ret.val.returned) <= 3
    /\ ret.val.outcome \in NoQueryList =>
         /\ ret.val.returned = FallbackQueries
         /\ Len(ret.val.returned) = 3

C16_Witness ==
  /\ ret.op = "deeper"
  /\ ret.val.outcome = "four"
  /\ ret.val.returned = <<"q1", "q2", "q3">>

\* C17: when the contents together exceed 3000 characters, the text sent to the
\* model is the first 3000 characters of the contents joined, in list order, by
\* newlines; nothing is sent when those 3000 characters are all white space.
JoinedContents(sr) == JoinLines(Contents(sr))

OverCap == Extracted /\ Len(Flatten(Contents(ret.val.search_results))) > RawTextCap

Registered(w) == \E i \in DOMAIN websockets[wrun[w]] : websockets[wrun[w]][i] = w

PendingEvents(w) ==
  LET mine == SelectSeq(loopq, LAMBDA x : x.ws = w)
  IN [i \in DOMAIN mine |-> mine[i].event]

Broadcast(r) == IF oe[r] = "broadcast" THEN Len(Buffer(r)) - 1 ELSE Len(Buffer(r))

EmittedWhileRegistered(w) == SubSeq(Buffer(wrun[w]), regAt[w] + 1, Broadcast(wrun[w]))

IsSuffix(s, t) == Len(s) <= Len(t) /\ s = SubSeq(t, Len(t) - Len(s) + 1, Len(t))

C18_Registered ==
  \A w \in Sockets :
    /\ wpc[w] = "wait" => Registered(w)
    /\ wpc[w] \in {"wait", "finally"} =>
         IsSuffix(EmittedWhileRegistered(w), delivered[w] \o PendingEvents(w))
    /\ wpc[w] = "finally" =>
         /\ run_complete[wrun[w]]
         /\ Broadcast(wrun[w]) = Len(Buffer(wrun[w]))
         /\ IsTerminal(Last(Buffer(wrun[w])))
    /\ wpc[w] \in {"returned", "rejected"} => ~Registered(w)

C18_LiveChannel ==
  /\ []C18_Registered
  /\ \A w \in Sockets :
       (wpc[w] = "wait" /\ run_complete[wrun[w]]) ~> (wpc[w] = "returned")

C18_Witness ==
  /\ wpc["w1"] = "finally"
  /\ regAt["w1"] = 2
  /\ delivered["w1"] = Buffer("r1")
  /\ Last(delivered["w1"]).type = "complete"


\* C19: the store of a run is still open at the moment the run emits complete:
\* while on_event handles the complete event of a run whose store is available,
\* the store's driver has not been closed.
C19_CompleteBeforeClose ==
  \A r \in Runs :
    (available[r] /\ oe[r] = "broadcast" /\ ev[r].type = "complete") => driver[r]


\* C20: round 1 makes exactly the connection, topic A and topic B searches and
\* requests no deeper queries; a later round requests deeper queries once, with
\* the insight of the previous round's extraction, then makes the connection
\* search, then one search per returned query (1 to 3), then the topic A and
\* topic B searches.
BaseQueries == {"connection", "topic_a", "topic_b"}

LatestInsight(b) ==
  b[CHOOSE i \in Extractions(b) : \A j \in Extractions(b) : j <= i].insight

AfterSearch(r) == pc[r] = "extract" /\ oe[r] = "none"

C20_SearchPlan ==
  \A r \in Runs : AfterSearch(r) =>
    LET c == local[r].calls
        n == Len(c)
    IN IF local[r].round_num = 1
       THEN c = <<SearchCall("connection"), SearchCall("topic_a"), SearchCall("topic_b")>>
       ELSE /\ n \in 5..7
            /\ c[1] = DeeperCall(LatestInsight(Buffer(r)))
            /\ c[2] = SearchCall("connection")
            /\ \A i \in 3..(n - 2) :
                 c[i].fn = "search_topic" /\ c[i].arg \notin BaseQueries
            /\ c[n - 1] = SearchCall("topic_a")
            /\ c[n] = SearchCall("topic_b")

\* C20 as stated: in a round after the first, every extra search is made before
\* every search of the base plan.
C20_ExtrasBeforeBasePlan ==
  \A r \in Runs : (AfterSearch(r) /\ local[r].round_num >= 2) =>
    \A i, j \in DOMAIN local[r].calls :
      ( /\ local[r].calls[i].fn = "search_topic"
        /\ local[r].calls[i].arg \notin BaseQueries
        /\ local[r].calls[j].fn = "search_topic"
        /\ local[r].calls[j].arg \in BaseQueries ) => i < j

C20_Witness ==
  /\ AfterSearch("r1")
  /\ local["r1"].round_num = 2
  /\ Len(local["r1"].calls) = 7
  /\ local["r1"].calls[1] = DeeperCall(FallbackInsight)
  /\ local["r1"].calls[3].arg = "q1"


\* ------------------------------------------------------------------- C21
\* What a search that answers returns for a query.
Answered(query) == search_topic(query, "ok").results

\* The results of the connection search and of the extra searches, in call order.
ConnectionAnswers(c) ==
  Flatten([i \in DOMAIN SelectSeq(c, LAMBDA x : x.fn = "search_topic"
                                                /\ x.arg \notin {"topic_a", "topic_b"}) |->
             Answered(SelectSeq(c, LAMBDA x : x.fn = "search_topic"
                                              /\ x.arg \notin {"topic_a", "topic_b"})[i].arg)])

\* C21 (amended): the list handed to the extractor in a round is the topic A
\* results, then the topic B results, then the "Previous Findings" result (only
\* when the context queried in this round is not empty), then the results of the
\* connection search and of the extra searches; search_complete.result_count is
\* the length of that list.
C21_ExtractionInput ==
  \A r \in Runs : AfterSearch(r) =>
    /\ local[r].all_results =
         Answered("topic_a") \o Answered("topic_b")
         \o (IF local[r].previous_context = <<>> THEN <<>>
             ELSE <<[title |-> "Previous Findings", url |-> "",
                     content |-> local[r].previous_context]>>)
         \o ConnectionAnswers(local[r].calls)
    /\ Last(Buffer(r)).type = "search_complete"
    /\ Last(Buffer(r)).result_count = Len(local[r].all_results)
    /\ Buffer(r)[Len(Buffer(r)) - 1].type = "senso_query"
    /\ Buffer(r)[Len(Buffer(r)) - 1].has_context = (local[r].previous_context # <<>>)

\* C21 as stated: the "Previous Findings" result stands between the topic A
\* results and the topic B results.
C21_ContextBeforeTopicB ==
  \A r \in Runs : AfterSearch(r) =>
    local[r].all_results =
      Answered("topic_a")
      \o (IF local[r].previous_context = <<>> THEN <<>>
          ELSE <<[title |-> "Previous Findings", url |-> "",
                  content |-> local[r].previous_context]>>)
      \o Answered("topic_b")
      \o ConnectionAnswers(local[r].calls)

C21_Witness ==
  /\ AfterSearch("r1")
  /\ local["r1"].round_num = 2
  /\ local["r1"].previous_context # <<>>
  /\ Len(local["r1"].all_results) = 7
  /\ local["r1"].all_results[3].title = "Previous Findings"


\* ------------------------------------------------------------------- C22
\* The set of the elements of a sequence.
Range(s) == {s[i] : i \in DOMAIN s}

\* The position at which a URL is first seen in a list that holds it.
FirstSeen(images, url) ==
  CHOOSE i \in DOMAIN images : images[i] = url /\ \A j \in 1..(i - 1) : images[j] # url

\* The events of the current round that follow its graph_update.
SinceGraphUpdate(b) ==
  SubSeq(b, (CHOOSE i \in DOMAIN b : b[i].type = "graph_update"
                /\ \A j \in (i + 1)..Len(b) : b[j].type # "graph_update") + 1, Len(b))

InVision(r) == pc[r] \in {"vision", "narrate"} /\ oe[r] = "none"

\* C22: in every round the k-th call of the vision client is on the URL that is
\* the k-th to be first seen in the round's image list, so no URL is analysed
\* twice; there are at most 2 calls, and exactly min(2, number of distinct URLs)
\* once the step is over; the image_clue events of the round are, in order, the
\* calls that returned a non-empty clue, each with its URL and clue.
C22_VisionCalls ==
  \A r \in Runs : InVision(r) =>
    LET images == local[r].round_images
        a == local[r].analyzed
        clues == SelectSeq(a, LAMBDA x : x.clue # <<>>)
        events == SinceGraphUpdate(Buffer(r))
    IN /\ Len(a) <= 2
       /\ \A k \in DOMAIN a :
            /\ a[k].image_url \in Range(images)
            /\ Cardinality({u \in Range(images) :
                              FirstSeen(images, u) < FirstSeen(images, a[k].image_url)}) = k - 1
       /\ pc[r] = "narrate" =>
            Len(a) = (IF Cardinality(Range(images)) < 2 THEN Cardinality(Range(images)) ELSE 2)
       /\ Len(events) = Len(clues)
       /\ \A k \in DOMAIN events :
            /\ events[k].type = "image_clue"
            /\ events[k].image_url = clues[k].image_url
            /\ events[k].clue_text = clues[k].clue
            /\ events[k].round = local[r].round_num

C22_Witness ==
  /\ pc["r1"] = "narrate" /\ oe["r1"] = "none"
  /\ Cardinality(Range(local["r1"].round_images)) = 3
  /\ local["r1"].round_images[1] = "img1"
  /\ Len(local["r1"].analyzed) = 2
  /\ local["r1"].analyzed[1].clue = <<>>
  /\ local["r1"].analyzed[2].clue # <<>>
  /\ local["r1"].analyzed[2].image_url = "img2"


\* ------------------------------------------------------------------- C23
\* A round of the run is over: the loop is about to go on or to end, or an
\* exception has left run_agent.
RoundOver(r) ==
  /\ oe[r] = "none"
  /\ pc[r] \in {"loop", "except"}
  /\ local[r].invoked.round >= 1

\* C23: in every round, whether calls succeed or fail, the knowledge query, the
\* extraction, the finding store hook and the narration are each invoked exactly
\* once, and no search query is issued twice.
C23_EachCallOncePerRound ==
  \A r \in Runs :
    /\ RoundOver(r) =>
         /\ local[r].invoked.query = 1
         /\ local[r].invoked.extract = 1
         /\ local[r].invoked.store = 1
         /\ local[r].invoked.narrate = 1
    /\ AfterSearch(r) =>
         \A i, j \in DOMAIN local[r].calls :
           (i # j /\ local[r].calls[i].fn = "search_topic") =>
             local[r].calls[i] # local[r].calls[j]


\* ------------------------------------------------------------------- C24
AfterNarration(r) == pc[r] = "loop" /\ oe[r] = "none" /\ local[r].round_num >= 1

\* C24: every round ends with a narration event of that round; when the call of
\* the narrator failed its text is the canned text of round 1 in round 1, of
\* round 2 in round 2 and of round 3 in every later round; otherwise it is what
\* the model streamed under the persona of round 1, of round 2, or of round 3 in
\* every later round.
C24_NarrationBuckets ==
  \A r \in Runs : AfterNarration(r) =>
    LET e == Last(Buffer(r))
        n == local[r].round_num
    IN /\ e.type = "narration"
       /\ e.round = n
       /\ IF local[r].narration_error
          THEN e.text = (CASE n = 1 -> <<"I">>
                           [] n = 2 -> <<"T", "H", "I", "S">>
                           [] n >= 3 -> <<"T", "H", "E", "Y">>)
          ELSE e.text \in {<<>>, (CASE n = 1 -> <<"radio host">>
                                    [] n = 2 -> <<"seeing the pattern">>
                                    [] n >= 3 -> <<"fully unhinged">>)}

C24_Witness ==
  /\ AfterNarration("r1")
  /\ local["r1"].round_num = 4
  /\ local["r1"].narration_error
  /\ Last(Buffer("r1")).text = <<"T", "H", "E", "Y">>
  /\ \E i \in DOMAIN Buffer("r1") :
       /\ Buffer("r1")[i].type = "narration"
       /\ Buffer("r1")[i].round = 3
       /\ Buffer("r1")[i].text = <<"fully unhinged">>


\* ------------------------------------------------------------------- C25
\* C25: both endpoints of every connection are entity records; on a usable store
\* an entity record carries the topic and round of the latest add_entity for its
\* name whatever add_connection calls followed, and a record whose name was never
\* given to add_entity is the endpoint of a connection and has no topic and no
\* round.
C25_ReferentialIntegrity ==
  /\ \A i \in DOMAIN db.rels :
       /\ \E j \in DOMAIN db.nodes : db.nodes[j].name = db.rels[i].from
       /\ \E j \in DOMAIN db.nodes : db.nodes[j].name = db.rels[i].to
  /\ Usable(HarnessGraph) =>
       \A j \in DOMAIN db.nodes :
         IF IsSome(lastEntity[db.nodes[j].name])
         THEN /\ db.nodes[j].topic = Some(Get(lastEntity[db.nodes[j].name]).args.topic)
              /\ db.nodes[j].round = Some(Get(lastEntity[db.nodes[j].name]).args.round)
         ELSE /\ db.nodes[j].topic = None
              /\ db.nodes[j].round = None
              /\ \E i \in DOMAIN db.rels :
                   db.nodes[j].name \in {db.rels[i].from, db.rels[i].to}

C25_Witness ==
  /\ Usable(HarnessGraph)
  /\ ret.op = "add_connection"
  /\ \A p \in Names \X Names : IsSome(lastConn[p]) <=> p = <<"e1", "e2">>
  /\ lastEntity["e1"] = Some([args |-> [topic |-> TopicB, round |-> 2], before |-> None])
  /\ lastEntity["e2"] = None
  /\ db.nodes = <<[name |-> "e1", topic |-> Some(TopicB), round |-> Some(2)],
                  [name |-> "e2", topic |-> None, round |-> None]>>


\* ------------------------------------------------------------------- C26
\* C26: a run that is marked finished, after complete or after error, no longer
\* holds the driver of its graph store.
C26_ClosedWhenFinished ==
  \A r \in Runs : run_complete[r] => ~driver[r]


\* ------------------------------------------------------------------- C27
GraphUpdates(b) == {i \in DOMAIN b : b[i].type = "graph_update"}

\* C27: in a run that has the database to itself the entity_count of a
\* graph_update is never below that of an earlier graph_update; the narrator of a
\* round is called with the entity_count of the round's graph_update; and the
\* total_entities of complete is the entity_count of the last graph_update.
C27_EntityCountMonotone ==
  \A r \in Runs :
    LET b == Buffer(r)
        u == GraphUpdates(b)
    IN /\ \A i, j \in u : i < j => b[i].entity_count <= b[j].entity_count
       /\ AfterNarration(r) =>
            \E i \in u : /\ \A j \in u : j <= i
                          /\ local[r].connection_count = b[i].entity_count
       /\ (Returned(r) /\ u # {}) =>
            \E i \in u : /\ \A j \in u : j <= i
                          /\ Last(b).total_entities = b[i].entity_count

C27_Witness ==
  /\ Returned("r1")
  /\ Last(Buffer("r1")).total_entities = 3
  /\ \E i, j \in GraphUpdates(Buffer("r1")) :
       /\ i < j
       /\ Buffer("r1")[i].entity_count = 0
       /\ Buffer("r1")[j].entity_count = 3
       /\ Buffer("r1")[j + 1].type = "image_clue"

=============================================================================
